---------------------------- MODULE Spec2Model ----------------------------
(***************************************************************************)
(* Semantic search, redundancy filter and conversation routes of           *)
(* davicaetano/synapse (backend/api/services/rag_service.py,               *)
(* openai_service.py, firebase_service.py, proactive_service.py and        *)
(* routers/search.py, proactive.py, summarization.py, action_items.py,     *)
(* priority.py) and of its Cloud Function (firebase/functions/main.py).    *)
(*                                                                         *)
(* Specifications.  Spec: the searches, the embedding provider answering.  *)
(* SpecRepeat: one search asked again.  SpecEmbeddingFails: searches whose *)
(* embedding call raises.  SpecFilter: filter_redundant_messages.          *)
(* SpecRepresentative: the same, over the embeddings of the messages.      *)
(* SpecConversation: the routes that read and write one conversation, and  *)
(* the on-create trigger of its documents.  SpecMessages: one call of      *)
(* get_conversation_messages with its parallel lookups.                    *)
(*                                                                         *)
(* Numbers.  Cosine distances are counted in fifths (distance 2.0 is 10),  *)
(* similarities and thresholds in tenths (1.0 is 10, the default 0.7 is 7),*)
(* so that  similarity = 1 - distance/2  is exactly  10 - d.               *)
(*                                                                         *)
(* Messages.  A message is its id; the text of message i is "text i", and  *)
(* dist[i] is the cosine distance the index reports between the embedding  *)
(* of that text and the embedding of the query.  The embedding provider is *)
(* external, so dist is any assignment of distances, chosen in Init.  Ids  *)
(* are opaque names and an input list may hold them in any order, so the   *)
(* assignments are taken up to renaming (non-decreasing in the id).        *)
(*                                                                         *)
(* Index.  Chroma.from_documents(collection_name="messages_temp") with no  *)
(* client and no persist directory uses the library's in-memory client.    *)
(* Whether that client is one per process (the collection "messages_temp"  *)
(* then outlives the call, and nothing in the code deletes it) or one per  *)
(* Chroma instance depends on the installed chromadb; sharedClient is that *)
(* property of the build.  The query returns the k nearest entries by      *)
(* ascending distance, equal distances in insertion order, and all entries *)
(* when k exceeds their number.                                            *)
(*                                                                         *)
(* Scheduling.  semantic_search_with_rag contains no await that suspends   *)
(* (the Chroma calls are blocking), so one call is one step of the event   *)
(* loop.  The route and hybrid_search suspend only on the store read and   *)
(* on the LLM call, whose answers are inputs of their steps.               *)
(***************************************************************************)
EXTENDS Integers, Sequences, FiniteSets

\* ------------------------------------------------------------------ bounds
MaxMsgs == 3
MaxResults == 2
MaxStored == 3
MaxAnswer == 1
MaxConversation == 3

\* ---------------------------------------------------------------- universe
Ids == {1, 2, 3}
NoSuchId == 0
DistVals == {-1, 0, 4}
Thresholds == {0, 10}

\* a default that excludes nothing
DefaultMinSimilarity_zero == 7 - 7

\* min_similarity_threshold: float = 0.7
DefaultMinSimilarity == 7

Min(a, b) == IF a <= b THEN a ELSE b

SeqsUpTo(S, n) == UNION {[1..l -> S] : l \in 0..n}

IsDupFree(s) == \A i, j \in 1..Len(s) : i # j => s[i] # s[j]

\* every list of messages a caller can pass
MessageLists == SeqsUpTo(Ids, MaxMsgs)

\* lists read from the message store: one message per document id
StoreLists == {s \in SeqsUpTo(Ids, Cardinality(Ids)) : IsDupFree(s)}

DistAssignments == {f \in [Ids -> DistVals] : \A i, j \in Ids : i <= j => f[i] <= f[j]}

\* <<given, value>>: the min_similarity_threshold argument of a call
ThresholdArgs == {<<FALSE, 0>>} \cup {<<TRUE, t>> : t \in Thresholds}

VARIABLES
    sharedClient,              \* the in-memory Chroma client is process-wide
    dist,                      \* distance of each text's embedding to the query's
    collection,                \* entries of collection "messages_temp"; the
                               \* query of the last call ran on these
    op,                        \* the last operation handled
    messages,                  \* its messages argument
    max_results,               \* its max_results argument
    thresholdGiven,            \* whether a threshold was passed
    min_similarity_threshold,  \* the threshold in effect in the search
    documents,                 \* documents handed to Chroma.from_documents
    raw,                       \* similarity_search_with_score's answer
    results,                   \* semantic_search_with_rag's return value
    candidate_messages,        \* hybrid_search: candidates given to the LLM
    reply,                     \* what the operation returned to its caller
    status,                    \* HTTP status of the route (0: not a route)
    memo,                      \* an earlier call and its result, kept to
                               \* compare a later call with (<<>>: none)
    raised,                    \* the exception that left the operation ("none")
    embed_calls,               \* calls of the embedding provider it made
    trivial,                   \* whether each message's text is trivial
    embeddings,                \* the vector the provider answers for its text
    created_at,                \* created_at of each message
    target_count,              \* filter_redundant_messages: its target_count
    non_trivial,               \* the messages kept by its trivial filter
    n_clusters,                \* the number of clusters it requested
    cluster_labels,            \* fit_predict's label of each non-trivial item
    embeddings_matrix,         \* the embedding of each non-trivial item
    representatives,           \* best_idx of each non-empty cluster, by cluster
    conversation,              \* documents of the conversation's messages
                               \* subcollection, oldest first
    result,                    \* run_proactive_assistant's return value
    final_state,               \* the state the workflow ended in, with the
                               \* nodes it ran and the LLM calls it made
    response,                  \* the ProactiveResponse of POST /proactive
    written,                   \* ids of the documents the operation wrote
    pending_triggers,          \* ids of the documents created whose on-create
                               \* trigger has not run yet
    notifications,             \* ids of the documents a push was sent for
    users,                     \* ids of the documents of collection users
    max_messages,              \* get_conversation_messages: its max_messages
    unique_sender_ids,         \* the distinct sender ids, in the list's order
    user_results,              \* what each lookup returned, in that order
    completed,                 \* the lookups in the order they completed
    lookup_errors,             \* the sender ids whose lookup raised
    sender_name,               \* sender_name of each returned message
    awaiting,                  \* the call is awaiting asyncio.gather
    total_found                \* total_found of the SearchResponse

vars == <<sharedClient, dist, collection, op, messages, max_results,
          thresholdGiven, min_similarity_threshold, documents, raw,
          results, candidate_messages, reply, status, memo, raised,
          embed_calls, trivial, embeddings, created_at, target_count, non_trivial, n_clusters, cluster_labels,
          embeddings_matrix, representatives, conversation, result, final_state,
          response, written,
          pending_triggers, notifications, users, max_messages, unique_sender_ids,
          user_results, completed,
          lookup_errors, sender_name, awaiting, total_found>>

\* the state of the redundancy filter and of the conversation routes
clustererVars == <<trivial, embeddings, created_at, target_count, non_trivial, n_clusters,
                   cluster_labels, embeddings_matrix, representatives>>

\* the state of a call of get_conversation_messages
lookupVars == <<notifications, users, max_messages, unique_sender_ids, user_results, completed,
                lookup_errors, sender_name, awaiting>>

conversationVars == <<conversation, pending_triggers, result, final_state, response,
                      written, lookupVars>>

assistantVars == <<conversationVars, total_found>>

\* ------------------------------------------------- semantic_search_with_rag

\* Step 1: documents of the messages, skipping ids already seen
RECURSIVE DedupFrom(_, _, _)
DedupFrom(msgs, i, seen_ids) ==
    IF i > Len(msgs) THEN <<>>
    ELSE IF msgs[i] \in seen_ids THEN DedupFrom(msgs, i + 1, seen_ids)
    ELSE <<msgs[i]>> \o DedupFrom(msgs, i + 1, seen_ids \cup {msgs[i]})

\* a deduplication that keeps every message
DedupDocuments_keepAll(msgs) == msgs

DedupDocuments(msgs) == DedupFrom(msgs, 1, {})

\* Steps 2 and 3: Chroma.from_documents adds the documents to the collection
\* "messages_temp" of the in-memory client
FromDocuments(coll, docs) == IF sharedClient THEN coll \o docs ELSE docs

\* number of entries that come before entry i in the query's answer
Before(coll, i) ==
    Cardinality({j \in 1..Len(coll) :
        \/ dist[coll[j]] < dist[coll[i]]
        \/ dist[coll[j]] = dist[coll[i]] /\ j < i})

\* Step 4: vectorstore.similarity_search_with_score(query, k)
SimilaritySearchWithScore(coll, k) ==
    [p \in 1..Min(k, Len(coll)) |->
        LET i == CHOOSE x \in 1..Len(coll) : Before(coll, x) = p - 1
        IN  [message_id |-> coll[i], distance |-> dist[coll[i]]]]

\* similarity_score = float(1 - (distance_score / 2))
SimilarityScore(distance_score) == 10 - distance_score

\* a filter that lets every result through
PassesThreshold_always(similarity_score, threshold) == TRUE

PassesThreshold(similarity_score, threshold) == similarity_score >= threshold

\* Step 5, second pass: filter by threshold and drop ids already returned
RECURSIVE FormatFrom(_, _, _, _)
FormatFrom(rs, i, threshold, seen_message_ids) ==
    IF i > Len(rs) THEN <<>>
    ELSE IF rs[i].message_id \in seen_message_ids
         THEN FormatFrom(rs, i + 1, threshold, seen_message_ids)
    ELSE IF PassesThreshold(SimilarityScore(rs[i].distance), threshold)
         THEN <<[message_id |-> rs[i].message_id,
                 relevance_score |-> SimilarityScore(rs[i].distance)]>>
              \o FormatFrom(rs, i + 1, threshold,
                            seen_message_ids \cup {rs[i].message_id})
    ELSE FormatFrom(rs, i + 1, threshold, seen_message_ids)

\* formatted_results[:max_results]
Truncate(s, n) == SubSeq(s, 1, Min(n, Len(s)))

FormattedResults(rs, threshold, n) == Truncate(FormatFrom(rs, 1, threshold, {}), n)

\* a search that asks the index for fewer neighbours than it returns
FetchCount_less(n) == n - 1

\* k=max_results * 2
FetchCount(n) == n * 2

\* the threshold a call runs with
EffectiveThreshold(arg) == IF arg[1] THEN arg[2] ELSE DefaultMinSimilarity

\* the state change of one call semantic_search_with_rag(query, msgs, n, arg)
RagSearch(msgs, n, arg) ==
    /\ op = "none"
    /\ documents' = DedupDocuments(msgs)
    /\ collection' = FromDocuments(collection, documents')
    /\ Len(collection') <= MaxStored
    /\ raw' = SimilaritySearchWithScore(collection', FetchCount(n))
    /\ messages' = msgs
    /\ max_results' = n
    /\ thresholdGiven' = arg[1]
    /\ min_similarity_threshold' = EffectiveThreshold(arg)
    /\ results' = FormattedResults(raw', min_similarity_threshold', max_results')
    /\ embed_calls' = 2

\* a caller calls semantic_search_with_rag directly
SearchCall(lists, counts) ==
    \E msgs \in lists, n \in counts, arg \in ThresholdArgs :
        /\ RagSearch(msgs, n, arg)
        /\ op' = "search"
        /\ reply' = results'
        /\ status' = 0
        /\ candidate_messages' = <<>>
        /\ UNCHANGED <<sharedClient, dist, memo, raised, clustererVars, assistantVars>>

SemanticSearchWithRag == SearchCall(MessageLists, 1..MaxResults)

\* ------------------------------------------------------------ POST /search

\* openai_service.semantic_search(query, messages, max_results): no threshold
SemanticSearch(msgs, n) == RagSearch(msgs, n, <<FALSE, 0>>)

\* a response that passes on every result of the search
BuildResponse_all(search_results, i, msgs) == search_results

\* results.append(SearchResult(...)) for each result whose message is found
RECURSIVE BuildResponse(_, _, _)
BuildResponse(search_results, i, msgs) ==
    IF i > Len(search_results) THEN <<>>
    ELSE IF \E j \in 1..Len(msgs) : msgs[j] = search_results[i].message_id
         THEN <<search_results[i]>> \o BuildResponse(search_results, i + 1, msgs)
    ELSE BuildResponse(search_results, i + 1, msgs)

\* smart_search with a conversation that has messages
SmartSearch ==
    \E msgs \in StoreLists \ {<<>>}, n \in 1..MaxResults :
        /\ SemanticSearch(msgs, n)
        /\ op' = "route"
        /\ reply' = BuildResponse(results', 1, msgs)
        /\ total_found' = Len(reply')
        /\ status' = 200
        /\ candidate_messages' = <<>>
        /\ UNCHANGED <<sharedClient, dist, memo, raised, clustererVars, conversationVars>>

\* smart_search with a conversation that has none: HTTPException(404) is
\* raised inside the try block and caught by "except Exception", which raises
\* HTTPException(500)
SmartSearchNoMessages ==
    \E n \in 1..MaxResults :
        /\ op = "none"
        /\ op' = "route"
        /\ messages' = <<>>
        /\ max_results' = n
        /\ thresholdGiven' = FALSE
        /\ status' = 500
        /\ reply' = <<>>
        /\ UNCHANGED <<sharedClient, dist, collection, min_similarity_threshold,
                       documents, raw, results, candidate_messages, memo,
                       raised, embed_calls, clustererVars, assistantVars>>

\* ----------------------------------------------------------- hybrid_search

\* candidate_messages: the message of each semantic result, if there is one
RECURSIVE CandidateMessages(_, _, _)
CandidateMessages(semantic_results, i, msgs) ==
    IF i > Len(semantic_results) THEN <<>>
    ELSE IF \E j \in 1..Len(msgs) : msgs[j] = semantic_results[i].message_id
         THEN <<semantic_results[i].message_id>>
              \o CandidateMessages(semantic_results, i + 1, msgs)
    ELSE CandidateMessages(semantic_results, i + 1, msgs)

\* result.get("results", []): the parsed answer of the LLM, returned as it is.
\* Only the message ids of the answer are kept.
LlmAnswers == {s \in SeqsUpTo(Ids \cup {NoSuchId}, MaxAnswer) : IsDupFree(s)}

HybridSearch ==
    \E msgs \in StoreLists, n \in 1..(MaxResults \div 2), answer \in LlmAnswers :
        /\ RagSearch(msgs, FetchCount(n), <<FALSE, 0>>)
        /\ op' = "hybrid"
        /\ candidate_messages' = CandidateMessages(results', 1, msgs)
        /\ reply' = answer
        /\ status' = 0
        /\ UNCHANGED <<sharedClient, dist, memo, raised, clustererVars, assistantVars>>

\* initial_state of the workflow: nothing decided, no suggestion
NoResult ==
    [should_act |-> FALSE, context_type |-> "none", confidence |-> 0,
     reason |-> "", suggestion_text |-> ""]

\* initial_state of run_proactive_assistant; stale stands for its messages
\* (whether the last is older than five minutes), nodes and llm_calls record
\* the nodes run and the calls of the LLM made since
InitialState ==
    [should_act |-> FALSE, context_type |-> "none", confidence |-> 0,
     reason |-> "", suggestion_text |-> "", current_step |-> 1,
     stale |-> FALSE, nodes |-> <<>>, llm_calls |-> 0]

\* no response yet
NoResponse ==
    [success |-> FALSE, should_act |-> FALSE, reason |-> "", message_id |-> NoSuchId]

\* senderId of the messages of the chat's users
Senders == {"user", "user2"}

\* the locals of get_conversation_messages before a call and after it
ReturnLookups ==
    /\ max_messages' = 0
    /\ unique_sender_ids' = <<>>
    /\ user_results' = <<>>
    /\ completed' = <<>>
    /\ lookup_errors' = {}
    /\ sender_name' = <<>>
    /\ awaiting' = FALSE

\* no call of get_conversation_messages is under way; every sender has a
\* document in collection users
InitLookups ==
    /\ users = Senders
    /\ notifications = {}
    /\ max_messages = 0
    /\ unique_sender_ids = <<>>
    /\ user_results = <<>>
    /\ completed = <<>>
    /\ lookup_errors = {}
    /\ sender_name = <<>>
    /\ awaiting = FALSE

\* the operation has returned; its locals are gone
Return ==
    /\ op # "none"
    /\ ~awaiting
    /\ ReturnLookups
    /\ total_found' = 0
    /\ op' = "none"
    /\ messages' = <<>>
    /\ max_results' = 1
    /\ thresholdGiven' = FALSE
    /\ min_similarity_threshold' = DefaultMinSimilarity
    /\ documents' = <<>>
    /\ raw' = <<>>
    /\ results' = <<>>
    /\ candidate_messages' = <<>>
    /\ reply' = <<>>
    /\ status' = 0
    /\ raised' = "none"
    /\ embed_calls' = 0
    /\ target_count' = 1
    /\ non_trivial' = <<>>
    /\ n_clusters' = 0
    /\ cluster_labels' = <<>>
    /\ embeddings_matrix' = <<>>
    /\ representatives' = <<>>
    /\ result' = NoResult
    /\ final_state' = InitialState
    /\ response' = NoResponse
    /\ written' = <<>>
    /\ UNCHANGED <<sharedClient, dist, collection, memo, trivial, embeddings,
                   created_at, conversation, pending_triggers, notifications,
                   users>>

Init ==
    /\ sharedClient \in BOOLEAN
    /\ dist \in DistAssignments
    /\ collection = <<>>
    /\ op = "none"
    /\ messages = <<>>
    /\ max_results = 1
    /\ thresholdGiven = FALSE
    /\ min_similarity_threshold = DefaultMinSimilarity
    /\ documents = <<>>
    /\ raw = <<>>
    /\ results = <<>>
    /\ candidate_messages = <<>>
    /\ reply = <<>>
    /\ status = 0
    /\ memo = <<>>
    /\ raised = "none"
    /\ embed_calls = 0
    /\ trivial = [i \in Ids |-> FALSE]
    /\ embeddings = [i \in Ids |-> 0]
    /\ created_at = [i \in Ids |-> i]
    /\ target_count = 1
    /\ non_trivial = <<>>
    /\ n_clusters = 0
    /\ cluster_labels = <<>>
    /\ embeddings_matrix = <<>>
    /\ representatives = <<>>
    /\ conversation = <<>>
    /\ pending_triggers = <<>>
    /\ result = NoResult
    /\ final_state = InitialState
    /\ response = NoResponse
    /\ written = <<>>
    /\ InitLookups
    /\ total_found = 0

Next ==
    \/ SemanticSearchWithRag
    \/ SmartSearch
    \/ SmartSearchNoMessages
    \/ HybridSearch
    \/ Return

Spec == Init /\ [][Next]_vars

\* ------------------------------------------------- one search, asked again
\* The same behaviours with one earlier call kept for comparison: calls of
\* semantic_search_with_rag with at most one message and max_results = 1.

ShortLists == SeqsUpTo(Ids, 1)

RepeatedSearch == SearchCall(ShortLists, {1})

Remember ==
    /\ op = "search"
    /\ memo = <<>>
    /\ memo' = <<[messages |-> messages, max_results |-> max_results,
                  threshold |-> min_similarity_threshold, results |-> results]>>
    /\ UNCHANGED <<sharedClient, dist, collection, op, messages, max_results,
                   thresholdGiven, min_similarity_threshold, documents, raw,
                   results, candidate_messages, reply, status, raised,
                   embed_calls, clustererVars, assistantVars>>

NextRepeat ==
    \/ RepeatedSearch
    \/ Remember
    \/ Return

SpecRepeat == Init /\ [][NextRepeat]_vars

\* ------------------------------------------ the embedding provider fails
\* Chroma.from_documents embeds every text in one embed_documents call and
\* adds the entries to the collection only after that call has answered.
\* semantic_search_with_rag has no try block and no loop around it: the
\* exception leaves the function at once.

\* a failed construction that leaves the first document in the collection
FromDocumentsFailed_partial(coll, docs) == coll \o SubSeq(docs, 1, 1)

\* the collection "messages_temp" after a from_documents whose embedding call
\* raised: nothing was added (a private client is dropped with its instance)
FromDocumentsFailed(coll, docs) == IF sharedClient THEN coll ELSE <<>>

\* the state change of one call of semantic_search_with_rag whose embedding of
\* the documents raises
RagSearchFails(msgs, n, arg) ==
    /\ op = "none"
    /\ documents' = DedupDocuments(msgs)
    /\ documents' # <<>>
    /\ collection' = FromDocumentsFailed(collection, documents')
    /\ Len(collection') <= MaxStored
    /\ messages' = msgs
    /\ max_results' = n
    /\ thresholdGiven' = arg[1]
    /\ min_similarity_threshold' = EffectiveThreshold(arg)
    /\ raised' = "EmbeddingError"
    /\ embed_calls' = 1
    /\ UNCHANGED <<raw, results, candidate_messages, sharedClient, dist, memo,
                   clustererVars, assistantVars>>

\* a direct call: the exception reaches the caller
SemanticSearchWithRagFails ==
    \E msgs \in MessageLists, n \in 1..MaxResults, arg \in ThresholdArgs :
        /\ RagSearchFails(msgs, n, arg)
        /\ op' = "search"
        /\ reply' = <<>>
        /\ status' = 0

\* smart_search: "except Exception" turns the exception into HTTPException(500)
SmartSearchFails ==
    \E msgs \in StoreLists \ {<<>>}, n \in 1..MaxResults :
        /\ RagSearchFails(msgs, n, <<FALSE, 0>>)
        /\ op' = "route"
        /\ reply' = <<>>
        /\ status' = 500

\* hybrid_search has no try block either
HybridSearchFails ==
    \E msgs \in StoreLists, n \in 1..(MaxResults \div 2) :
        /\ RagSearchFails(msgs, FetchCount(n), <<FALSE, 0>>)
        /\ op' = "hybrid"
        /\ reply' = <<>>
        /\ status' = 0

NextEmbeddingFails ==
    \/ SmartSearch
    \/ SemanticSearchWithRagFails
    \/ SmartSearchFails
    \/ HybridSearchFails
    \/ Return

\* the distances play no part in a failed construction: one assignment
InitEmbeddingFails == Init /\ dist = [i \in Ids |-> 4]

SpecEmbeddingFails == InitEmbeddingFails /\ [][NextEmbeddingFails]_vars

\* ----------------------------------------------- filter_redundant_messages
\* filter_redundant_messages(messages, target_count).  The text of a message
\* enters only through the test of the trivial filter, so a message carries
\* the outcome of that test (trivial) and its created_at.  The embeddings are
\* the provider's: vectors of one component, in exact arithmetic, the same
\* vector for the same message.  The labels are the clustering library's: any split of the
\* items into n_clusters non-empty groups.  The representative of a group is
\* computed from the embeddings of its members.

Times == {1, 2}

TargetCounts == 1..(MaxMsgs - 1)

Max(a, b) == IF a >= b THEN a ELSE b

\* a trivial filter that drops nothing
NonTrivial_keepAll(msgs) == msgs

\* lines 298-307: the messages whose text is not trivial, in input order
NonTrivial(msgs) == SelectSeq(msgs, LAMBDA m : ~trivial[m])

\* n_clusters = max(target_count, int(len(non_trivial) * 0.5))
NClusters(t, R) == Max(t, R \div 2)

\* fit_predict: a label in 0..n-1 for each item, every label used
Labellings(R, n) ==
    {l \in [1..R -> 0..(n - 1)] : \A c \in 0..(n - 1) : \E i \in 1..R : l[i] = c}

\* np.where(cluster_labels == cluster_id)[0]
ClusterIndices(labels, cluster_id) == {i \in DOMAIN labels : labels[i] = cluster_id}

\* components of the embedding vectors
EmbeddingVals == {0, 1, 3}

\* embeddings.aembed_documents(message_texts): one vector per text
EmbeddingsMatrix(nt) == [i \in 1..Len(nt) |-> embeddings[nt[i]]]

Abs(x) == IF x >= 0 THEN x ELSE -x

RECURSIVE SumFrom(_, _, _)
SumFrom(emb, members, i) ==
    IF i > Len(emb) THEN 0
    ELSE (IF i \in members THEN emb[i] ELSE 0) + SumFrom(emb, members, i + 1)

\* np.linalg.norm(embeddings_matrix[idx] - centroid), where centroid is the
\* members' mean, multiplied by the number of members
DistanceToCentroid(emb, members, idx) ==
    Abs(Cardinality(members) * emb[idx] - SumFrom(emb, members, 1))

\* a choice of the member farthest from the centroid
BestIdx_farthest(emb, members) ==
    CHOOSE idx \in members :
        \A j \in members :
            \/ DistanceToCentroid(emb, members, idx) > DistanceToCentroid(emb, members, j)
            \/ (DistanceToCentroid(emb, members, idx) = DistanceToCentroid(emb, members, j)
                /\ idx <= j)

\* cluster_indices[np.argmin(distances_to_centroid)]: argmin answers the
\* first position that holds the minimum
BestIdx(emb, members) ==
    CHOOSE idx \in members :
        \A j \in members :
            \/ DistanceToCentroid(emb, members, idx) < DistanceToCentroid(emb, members, j)
            \/ (DistanceToCentroid(emb, members, idx) = DistanceToCentroid(emb, members, j)
                /\ idx <= j)

\* best_idx of every cluster, for cluster_id = 0, 1, ...
Representatives(labels, emb, n) ==
    [c \in 1..n |-> BestIdx(emb, ClusterIndices(labels, c - 1))]

\* a selection that keeps every member of every cluster
Picked_all(nt, best) == nt

\* filtered_messages before the sort: non_trivial[best_idx] by cluster_id
Picked(nt, best) == [c \in 1..Len(best) |-> nt[best[c]]]

\* list.sort(key=created_at) is stable: m goes after the elements not later
RECURSIVE InsertByCreatedAt(_, _)
InsertByCreatedAt(sorted, m) ==
    IF sorted = <<>> THEN <<m>>
    ELSE IF created_at[Head(sorted)] <= created_at[m]
         THEN <<Head(sorted)>> \o InsertByCreatedAt(Tail(sorted), m)
    ELSE <<m>> \o sorted

RECURSIVE SortFrom(_, _, _)
SortFrom(s, i, sorted) ==
    IF i > Len(s) THEN sorted
    ELSE SortFrom(s, i + 1, InsertByCreatedAt(sorted, s[i]))

\* filtered_messages.sort(key=lambda m: m.created_at)
SortByCreatedAt(s) == SortFrom(s, 1, <<>>)

\* a failure that falls back to the unclustered messages
EmbeddingFailure_fallback(nt) == [raised |-> "none", returned |-> nt]

\* aembed_documents raises: no try block, the exception leaves the function
EmbeddingFailure(nt) == [raised |-> "EmbeddingError", returned |-> <<>>]

\* The input lists hold the ids in any order, so trivial and created_at are
\* taken up to renaming: trivial messages have the higher ids, and among
\* messages alike in that, created_at does not decrease with the id
Canonical(tr, at) ==
    \A i, j \in Ids :
        i < j => \/ (~tr[i] /\ tr[j])
                 \/ (tr[i] = tr[j] /\ at[i] <= at[j])

\* what every path of the function sets
FilterCall(msgs, t) ==
    /\ op = "none"
    /\ op' = "filter"
    /\ messages' = msgs
    /\ target_count' = t
    /\ status' = 0
    /\ UNCHANGED <<sharedClient, dist, collection, max_results, thresholdGiven,
                   min_similarity_threshold, documents, raw, results,
                   candidate_messages, memo, trivial, embeddings, created_at,
                   assistantVars>>

\* lines 292-294: len(messages) <= target_count, the messages are returned
FilterEarlyReturn ==
    \E msgs \in MessageLists, t \in TargetCounts :
        /\ Len(msgs) <= t
        /\ FilterCall(msgs, t)
        /\ reply' = msgs
        /\ UNCHANGED <<raised, embed_calls, non_trivial, n_clusters,
                       cluster_labels, embeddings_matrix, representatives>>

\* lines 296-314: the trivial filter leaves at most target_count messages
FilterAfterTrivial ==
    \E msgs \in MessageLists, t \in TargetCounts :
        /\ Len(msgs) > t
        /\ FilterCall(msgs, t)
        /\ non_trivial' = NonTrivial(msgs)
        /\ Len(non_trivial') <= t
        /\ reply' = non_trivial'
        /\ UNCHANGED <<raised, embed_calls, n_clusters, cluster_labels,
                       embeddings_matrix, representatives>>

\* lines 316-379: embedding, clustering, one representative per cluster, sort
FilterClustered ==
    \E msgs \in MessageLists, t \in TargetCounts :
        /\ Len(msgs) > t
        /\ FilterCall(msgs, t)
        /\ non_trivial' = NonTrivial(msgs)
        /\ Len(non_trivial') > t
        /\ embed_calls' = 1
        /\ n_clusters' = NClusters(t, Len(non_trivial'))
        /\ cluster_labels' \in Labellings(Len(non_trivial'), n_clusters')
        /\ embeddings_matrix' = EmbeddingsMatrix(non_trivial')
        /\ representatives' = Representatives(cluster_labels', embeddings_matrix',
                                              n_clusters')
        /\ reply' = SortByCreatedAt(Picked(non_trivial', representatives'))
        /\ UNCHANGED raised

\* lines 318-320: the embedding call raises
FilterEmbeddingFails ==
    \E msgs \in MessageLists, t \in TargetCounts :
        /\ Len(msgs) > t
        /\ FilterCall(msgs, t)
        /\ non_trivial' = NonTrivial(msgs)
        /\ Len(non_trivial') > t
        /\ embed_calls' = 1
        /\ raised' = EmbeddingFailure(non_trivial').raised
        /\ reply' = EmbeddingFailure(non_trivial').returned
        /\ UNCHANGED <<n_clusters, cluster_labels, embeddings_matrix,
                       representatives>>

\* the state before the first call, but for the messages' attributes
InitFilterLocals ==
    /\ sharedClient = FALSE
    /\ dist = [i \in Ids |-> 4]
    /\ collection = <<>>
    /\ op = "none"
    /\ messages = <<>>
    /\ max_results = 1
    /\ thresholdGiven = FALSE
    /\ min_similarity_threshold = DefaultMinSimilarity
    /\ documents = <<>>
    /\ raw = <<>>
    /\ results = <<>>
    /\ candidate_messages = <<>>
    /\ reply = <<>>
    /\ status = 0
    /\ memo = <<>>
    /\ raised = "none"
    /\ embed_calls = 0
    /\ target_count = 1
    /\ non_trivial = <<>>
    /\ n_clusters = 0
    /\ cluster_labels = <<>>
    /\ embeddings_matrix = <<>>
    /\ representatives = <<>>
    /\ conversation = <<>>
    /\ pending_triggers = <<>>
    /\ result = NoResult
    /\ final_state = InitialState
    /\ response = NoResponse
    /\ written = <<>>
    /\ InitLookups
    /\ total_found = 0

\* every trivial and created_at of Canonical, one assignment of embeddings
InitFilter ==
    /\ InitFilterLocals
    /\ trivial \in [Ids -> BOOLEAN]
    /\ created_at \in [Ids -> Times]
    /\ Canonical(trivial, created_at)
    /\ embeddings = <<0, 1, 3>>

NextFilter ==
    \/ FilterEarlyReturn
    \/ FilterAfterTrivial
    \/ FilterClustered
    \/ FilterEmbeddingFails
    \/ Return

SpecFilter == InitFilter /\ [][NextFilter]_vars

\* the choice of the representatives: every assignment of embeddings that
\* does not decrease with the id (the lists hold the ids in any order), to
\* messages of one created_at of which the last may be trivial
InitRepresentative ==
    /\ InitFilterLocals
    /\ trivial \in {[i \in Ids |-> FALSE], [i \in Ids |-> i = 3]}
    /\ created_at = [i \in Ids |-> 1]
    /\ embeddings \in {f \in [Ids -> EmbeddingVals] :
                          \A i, j \in Ids : i < j => f[i] <= f[j]}

SpecRepresentative == InitRepresentative /\ [][NextFilter]_vars

\* --------------------------------------------------------- POST /proactive
\* The conversation is the list of documents of its messages subcollection,
\* oldest first; the id of a document is its position.  Whether the last message is older than five minutes and what the
\* LLM of the context detector answers are inputs of the request.

SynapseBot == "synapse-bot-system"

\* a text message of a user of the chat, and whether it was deleted since
TextDoc(sender_id, is_deleted) ==
    [senderId |-> sender_id, type |-> "text", text |-> "message",
     isDeleted |-> is_deleted]

\* a text message sent by a user of the chat
UserDoc == TextDoc("user", FALSE)

\* message_data of create_ai_message, create_ai_summary_message and
\* create_error_message
BotDoc(message_type, text, send_notification) ==
    [senderId |-> SynapseBot, type |-> message_type, text |-> text,
     isDeleted |-> FALSE, sendNotification |-> send_notification]

\* fetch_limit = 100, in proportion to the conversations of MaxConversation
\* documents
FetchLimit == 2

\* max_messages=20  # Last 20 messages for context
ProactiveMaxMessages == 20

LastN(s, n) == SubSeq(s, Max(1, Len(s) - n + 1), Len(s))

Positions(conv) == [i \in 1..Len(conv) |-> i]

\* get_conversation_messages without dates: the newest fetch_limit documents,
\* of these the messages of type 'text' that are not deleted, of these the
\* newest max_messages, oldest first
GetConversationMessages(conv, max_n) ==
    LastN(SelectSeq(LastN(Positions(conv), FetchLimit),
                    LAMBDA i : ~conv[i].isDeleted /\ conv[i].type = "text"),
          max_n)

ContextTypes == {"cinema", "restaurant", "generic", "none"}

\* confidence, in tenths
Confidences == {3, 9}

\* the parsed answer of the context detector's LLM
LlmDecisions ==
    [should_act : BOOLEAN, context_type : ContextTypes, confidence : Confidences]

\* a detector without the activity check
ContextDetectorStep_noGate(state, stale, decision) ==
    [state EXCEPT !.should_act = decision.should_act,
                  !.context_type = decision.context_type,
                  !.confidence = decision.confidence,
                  !.reason = "llm",
                  !.current_step = @ + 1,
                  !.nodes = Append(@, "context_detector"),
                  !.llm_calls = @ + 1]

\* context_detector_step: the activity check (the last message is older
\* than five minutes), then the LLM
ContextDetectorStep(state, stale, decision) ==
    IF stale
    THEN [state EXCEPT !.should_act = FALSE, !.context_type = "none",
                       !.confidence = 0, !.reason = "stale_conversation",
                       !.nodes = Append(@, "context_detector")]
    ELSE [state EXCEPT !.should_act = decision.should_act,
                       !.context_type = decision.context_type,
                       !.confidence = decision.confidence,
                       !.reason = "llm",
                       !.current_step = @ + 1,
                       !.nodes = Append(@, "context_detector"),
                       !.llm_calls = @ + 1]

\* the suggestion of cinema_agent_step, restaurant_agent_step, generic_agent_step
Suggestion(agent) ==
    IF agent = "cinema_agent" THEN "Movie Suggestions"
    ELSE IF agent = "restaurant_agent" THEN "Restaurant Suggestions"
    ELSE "I can help!"

AgentStep(agent, state) ==
    [state EXCEPT !.suggestion_text = Suggestion(agent),
                  !.current_step = @ + 1,
                  !.nodes = Append(@, agent)]

\* a router that sends every context to the generic agent
RouteToSpecialist_generic(state) == "generic_agent"

RouteToSpecialist(state) ==
    IF state.context_type = "cinema" THEN "cinema_agent"
    ELSE IF state.context_type = "restaurant" THEN "restaurant_agent"
    ELSE "generic_agent"

\* the conditional edge after context_detector
ConditionalEdge(state) ==
    IF state.should_act THEN RouteToSpecialist(state) ELSE "END"

\* app.ainvoke(initial_state): the entry point, the conditional edge, and the
\* edge from each specialist to END
Ainvoke(stale, decision) ==
    LET detected == ContextDetectorStep([InitialState EXCEPT !.stale = stale],
                                        stale, decision)
    IN  IF ConditionalEdge(detected) = "END"
        THEN detected
        ELSE AgentStep(ConditionalEdge(detected), detected)

\* the dict that run_proactive_assistant returns
Returned(state) ==
    [should_act |-> state.should_act, context_type |-> state.context_type,
     confidence |-> state.confidence, reason |-> state.reason,
     suggestion_text |-> state.suggestion_text]

RunProactiveAssistant(stale, decision) == Returned(Ainvoke(stale, decision))

\* async def create_ai_message(conversation_id, text, message_type,
\*                             generated_by_user_id, member_ids, metadata=None)
CreateAiMessageParams ==
    {"conversation_id", "text", "message_type", "generated_by_user_id",
     "member_ids", "metadata"}

CreateAiMessageRequired == CreateAiMessageParams \ {"metadata"}

\* the keyword arguments of the call in trigger_proactive_assistant
ProactiveCallKeywords ==
    {"conversation_id", "text", "message_type", "member_ids",
     "send_notification", "metadata"}

\* Python binds a call when every keyword names a parameter and every
\* parameter without a default is given; otherwise the call raises TypeError
Binds(keywords, params, required) ==
    keywords \subseteq params /\ required \subseteq keywords

ProactiveReply(success, should_act, reason, message_id) ==
    [success |-> success, should_act |-> should_act, reason |-> reason,
     message_id |-> message_id]

ProactiveCall ==
    /\ op = "none"
    /\ op' = "proactive"
    /\ messages' = GetConversationMessages(conversation, ProactiveMaxMessages)
    /\ status' = 200
    /\ UNCHANGED <<sharedClient, dist, collection, max_results, thresholdGiven,
                   min_similarity_threshold, documents, raw, results,
                   candidate_messages, reply, memo, raised, embed_calls,
                   clustererVars, lookupVars, total_found>>

\* trigger_proactive_assistant, the store and the LLM answering
TriggerProactiveAssistant ==
    \E stale \in BOOLEAN, decision \in LlmDecisions :
        /\ ProactiveCall
        /\ IF messages' = <<>>
           THEN /\ response' = ProactiveReply(TRUE, FALSE, "no_messages", NoSuchId)
                /\ UNCHANGED <<conversation, pending_triggers, result, final_state,
                               written>>
           ELSE /\ final_state' = Ainvoke(stale, decision)
                /\ result' = RunProactiveAssistant(stale, decision)
                /\ IF result'.should_act /\ result'.suggestion_text # ""
                   THEN IF Binds(ProactiveCallKeywords, CreateAiMessageParams,
                                    CreateAiMessageRequired)
                        THEN /\ conversation' =
                                  Append(conversation,
                                         BotDoc("ai_summary", result'.suggestion_text, FALSE))
                             /\ Len(conversation') <= MaxConversation
                             /\ written' = <<Len(conversation')>>
                             /\ pending_triggers' = pending_triggers \o written'
                             /\ response' = ProactiveReply(TRUE, TRUE, "",
                                                           Len(conversation'))
                        ELSE /\ response' = ProactiveReply(FALSE, FALSE,
                                                           "error: TypeError", NoSuchId)
                             /\ UNCHANGED <<conversation, pending_triggers, written>>
                   ELSE /\ response' = ProactiveReply(TRUE, FALSE, result'.reason, NoSuchId)
                        /\ UNCHANGED <<conversation, pending_triggers, written>>

\* the LLM call of the context detector raises: "except Exception" answers
\* success=False
ProactiveWorkflowFails ==
    /\ ProactiveCall
    /\ messages' # <<>>
    /\ response' = ProactiveReply(FALSE, FALSE, "error: LLMError", NoSuchId)
    /\ final_state' = [InitialState EXCEPT !.nodes = <<"context_detector">>,
                                           !.llm_calls = 1]
    /\ UNCHANGED <<conversation, pending_triggers, result, written>>

\* a user of the chat sends a text message
UserSends ==
    /\ op = "none"
    /\ Len(conversation) < MaxConversation
    /\ conversation' = Append(conversation, UserDoc)
    /\ pending_triggers' = Append(pending_triggers, Len(conversation'))
    /\ UNCHANGED <<sharedClient, dist, collection, op, messages, max_results,
                   thresholdGiven, min_similarity_threshold, documents, raw,
                   results, candidate_messages, reply, status, memo, raised,
                   embed_calls, clustererVars, result, final_state, response,
                       written,
                   lookupVars, total_found>>

\* ------------------------------ POST /summarize, /action-items, /priority
\* Each of the three handlers reads the messages, asks the LLM, and writes the
\* answer as a bot message; all of it is in one try block whose
\* "except Exception" writes an error message and raises HTTPException(500).
\* HTTPException is an Exception, so the 404 raised inside the try block takes
\* that path too.  Whether the LLM call succeeds and whether the error
\* message can be written are inputs of the request.

\* the except block, entered with the conversation as the try block left it
\* (stored) and the documents the request has written (ids):
\* create_error_message (a failure of it is only logged), then
\* HTTPException(status_code=500)
ErrorPath(stored, ids, error_written) ==
    /\ status' = 500
    /\ IF error_written
       THEN /\ conversation' = Append(stored, BotDoc("ai_error", "AI Error", TRUE))
            /\ written' = Append(ids, Len(conversation'))
       ELSE /\ conversation' = stored
            /\ written' = ids

\* create_ai_summary_message and create_ai_message: message_ref.set(...)
\* creates the message document, then conv_ref.set(..., merge=True) updates
\* the conversation's metadata; an exception of either leaves the function
AiRoute(route, max_n, message_type) ==
    \E llm_answers, metadata_written, error_written \in BOOLEAN :
        /\ op = "none"
        /\ op' = route
        /\ messages' = GetConversationMessages(conversation, max_n)
        /\ IF messages' = <<>>
           \* raise HTTPException(status_code=404), inside the try block
           THEN ErrorPath(conversation, <<>>, error_written)
           ELSE IF llm_answers
           THEN LET stored == Append(conversation, BotDoc(message_type, "answer", FALSE))
                IN  IF metadata_written
                    THEN /\ conversation' = stored
                         /\ written' = <<Len(stored)>>
                         /\ status' = 200
                    ELSE ErrorPath(stored, <<Len(stored)>>, error_written)
           ELSE ErrorPath(conversation, <<>>, error_written)
        /\ Len(conversation') <= MaxConversation
        /\ pending_triggers' = pending_triggers \o written'
        /\ UNCHANGED <<sharedClient, dist, collection, max_results, thresholdGiven,
                       min_similarity_threshold, documents, raw, results,
                       candidate_messages, reply, memo, raised, embed_calls,
                       clustererVars, result, final_state, response,
                       lookupVars, total_found>>

\* max_messages=min(request.max_messages, 50), create_ai_summary_message
SummarizeThread == AiRoute("summarize", 50, "ai_summary")

\* max_messages=50, message_type="ai_action_items"
ExtractActionItems == AiRoute("action-items", 50, "ai_action_items")

\* max_messages=100, message_type="ai_priority"
DetectPriority == AiRoute("priority", 100, "ai_priority")

\* POST /search for a conversation of which the store returns no message
SearchNoMessages ==
    /\ GetConversationMessages(conversation, 1000) = <<>>
    /\ SmartSearchNoMessages

InitConversation == Init /\ ~sharedClient /\ dist = [i \in Ids |-> 4]

\* ------------------------------------- send_notification_on_new_message
\* The Cloud Function runs once for every document created in a messages
\* subcollection, at some time after the write.  The members of the
\* conversation are the chat's users; the bot is not one of them.  Whether
\* the recipients have FCM tokens is an input of the run.

\* memberIds of the conversation
MemberIds == Senders

\* recipient_ids = [uid for uid in member_ids if uid != sender_id]
RecipientIds(message_data) == MemberIds \ {message_data.senderId}

\* lines 72-128: messaging.send_multicast is reached when there are
\* recipients and they have tokens
Notifies(message_data, tokens_found) ==
    /\ RecipientIds(message_data) # {}
    /\ tokens_found

SendNotificationOnNewMessage ==
    \E k \in DOMAIN pending_triggers, tokens_found \in BOOLEAN :
        /\ pending_triggers' =
               SubSeq(pending_triggers, 1, k - 1)
                   \o SubSeq(pending_triggers, k + 1, Len(pending_triggers))
        /\ notifications' =
               IF Notifies(conversation[pending_triggers[k]], tokens_found)
               THEN notifications \cup {pending_triggers[k]}
               ELSE notifications
        /\ UNCHANGED <<sharedClient, dist, collection, op, messages, max_results,
                       thresholdGiven, min_similarity_threshold, documents, raw,
                       results, candidate_messages, reply, status, memo, raised,
                       embed_calls, clustererVars, conversation, result,
                       final_state, response, written, users, max_messages,
                       unique_sender_ids, user_results, completed,
                       lookup_errors, sender_name, awaiting, total_found>>

NextConversation ==
    \/ UserSends
    \/ SendNotificationOnNewMessage
    \/ TriggerProactiveAssistant
    \/ ProactiveWorkflowFails
    \/ SummarizeThread
    \/ ExtractActionItems
    \/ DetectPriority
    \/ SearchNoMessages
    \/ Return

SpecConversation == InitConversation /\ [][NextConversation]_vars

\* ----------------------------------------------- get_conversation_messages
\* One call of get_conversation_messages(conversation_id, max_messages=n) in
\* steps: the query and the Python filter; the lookups of the senders' names,
\* which run in threads and complete in any order, each finding the user's
\* document or not, or raising; then asyncio.gather returns and the names are
\* set.  Users send and delete messages and leave between calls.

\* user_data.get('displayName', 'Unknown') of the user's document
DisplayName(user_id) == IF user_id = "user" THEN "User One" ELSE "User Two"

Unknown == "Unknown"

\* the result slot of a lookup that has not completed
Pending == <<>>

\* a lookup that never reads the user's document
FetchUserNameSync_unknown(user_id, raises) == <<user_id, Unknown>>

\* fetch_user_name_sync(user_id)
FetchUserNameSync(user_id, raises) ==
    <<user_id, IF ~raises /\ user_id \in users THEN DisplayName(user_id) ELSE Unknown>>

SenderIds(conv, msgs) == {conv[msgs[i]].senderId : i \in 1..Len(msgs)}

\* list(set(...)): the distinct ids, in an order of the set's choosing
Orderings(S) ==
    {s \in [1..Cardinality(S) -> S] : \A i, j \in DOMAIN s : i # j => s[i] # s[j]}

\* dict(user_results).get(sender_id, 'Unknown')
UserMapGet(urs, sender_id) ==
    IF \E k \in DOMAIN urs : urs[k][1] = sender_id
    THEN urs[CHOOSE k \in DOMAIN urs :
                 /\ urs[k][1] = sender_id
                 /\ \A j \in DOMAIN urs : urs[j][1] = sender_id => j <= k][2]
    ELSE Unknown

\* lines 36-88 and the start of the lookups
GetMessagesCall ==
    \E n \in 1..MaxConversation :
        /\ op = "none"
        /\ op' = "messages"
        /\ max_messages' = n
        /\ messages' = GetConversationMessages(conversation, n)
        /\ unique_sender_ids' \in Orderings(SenderIds(conversation, messages'))
        /\ user_results' = [k \in DOMAIN unique_sender_ids' |-> Pending]
        /\ completed' = <<>>
        /\ lookup_errors' = {}
        /\ sender_name' = <<>>
        /\ awaiting' = TRUE
        /\ UNCHANGED <<sharedClient, dist, collection, max_results, thresholdGiven,
                       min_similarity_threshold, documents, raw, results,
                       candidate_messages, reply, status, memo, raised,
                       embed_calls, clustererVars, conversation, pending_triggers, result,
                       final_state,
                       response, written, notifications, users, total_found>>

\* one thread's fetch_user_name_sync returns
LookupCompletes ==
    \E k \in DOMAIN user_results, raises \in BOOLEAN :
        /\ awaiting
        /\ user_results[k] = Pending
        /\ user_results' =
               [user_results EXCEPT ![k] = FetchUserNameSync(unique_sender_ids[k], raises)]
        /\ completed' = Append(completed, k)
        /\ lookup_errors' =
               IF raises THEN lookup_errors \cup {unique_sender_ids[k]} ELSE lookup_errors
        /\ UNCHANGED <<sharedClient, dist, collection, op, messages, max_results,
                       thresholdGiven, min_similarity_threshold, documents, raw,
                       results, candidate_messages, reply, status, memo, raised,
                       embed_calls, clustererVars, conversation, pending_triggers, result,
                       final_state,
                       response, written, notifications, users, max_messages,
                       unique_sender_ids, sender_name, awaiting, total_found>>

\* asyncio.gather returns when every lookup has; lines 112-121
GatherReturns ==
    /\ awaiting
    /\ \A k \in DOMAIN user_results : user_results[k] # Pending
    /\ awaiting' = FALSE
    /\ sender_name' =
           [i \in DOMAIN messages |->
               UserMapGet(user_results, conversation[messages[i]].senderId)]
    /\ reply' = messages
    /\ UNCHANGED <<sharedClient, dist, collection, op, messages, max_results,
                   thresholdGiven, min_similarity_threshold, documents, raw,
                   results, candidate_messages, status, memo, raised,
                   embed_calls, clustererVars, conversation, pending_triggers, result,
                       final_state,
                   response, written, notifications, users, max_messages, unique_sender_ids,
                   user_results, completed, lookup_errors, total_found>>

\* the documents that the users and the bot add to a conversation
NewDocs ==
    {TextDoc(u, FALSE) : u \in Senders} \cup {BotDoc("ai_summary", "answer", FALSE)}

DocumentCreated ==
    \E doc \in NewDocs :
        /\ op = "none"
        /\ Len(conversation) < MaxConversation
        /\ conversation' = Append(conversation, doc)
        /\ pending_triggers' = Append(pending_triggers, Len(conversation'))
        /\ UNCHANGED <<sharedClient, dist, collection, op, messages, max_results,
                       thresholdGiven, min_similarity_threshold, documents, raw,
                       results, candidate_messages, reply, status, memo, raised,
                       embed_calls, clustererVars, result, final_state, response,
                       written,
                       lookupVars, total_found>>

\* a user deletes a message: the document stays, with isDeleted true
MessageDeleted ==
    \E i \in DOMAIN conversation :
        /\ op = "none"
        /\ conversation[i].type = "text"
        /\ ~conversation[i].isDeleted
        /\ conversation' = [conversation EXCEPT ![i].isDeleted = TRUE]
        /\ UNCHANGED pending_triggers
        /\ UNCHANGED <<sharedClient, dist, collection, op, messages, max_results,
                       thresholdGiven, min_similarity_threshold, documents, raw,
                       results, candidate_messages, reply, status, memo, raised,
                       embed_calls, clustererVars, result, final_state, response,
                       written,
                       lookupVars, total_found>>

\* the document of a user is removed from collection users
UserRemoved ==
    \E u \in users :
        /\ op = "none"
        /\ users' = users \ {u}
        /\ UNCHANGED <<sharedClient, dist, collection, op, messages, max_results,
                       thresholdGiven, min_similarity_threshold, documents, raw,
                       results, candidate_messages, reply, status, memo, raised,
                       embed_calls, clustererVars, conversation, pending_triggers, result,
                       final_state,
                       response, written, notifications, max_messages,
                       unique_sender_ids,
                       user_results, completed, lookup_errors, sender_name,
                       awaiting, total_found>>

NextMessages ==
    \/ DocumentCreated
    \/ MessageDeleted
    \/ UserRemoved
    \/ GetMessagesCall
    \/ LookupCompletes
    \/ GatherReturns
    \/ Return

SpecMessages == InitConversation /\ [][NextMessages]_vars

\* ------------------------------------------------------------------ claims

\* the last operation ran semantic_search_with_rag
Searched ==
    /\ raised = "none"
    /\ op \in {"search", "hybrid"} \/ (op = "route" /\ status = 200)

IdsOf(s) == {s[i] : i \in 1..Len(s)}

ResultIds(rs) == {rs[i].message_id : i \in 1..Len(rs)}

FirstIndex(s, x) == CHOOSE i \in 1..Len(s) : s[i] = x /\ \A j \in 1..(i - 1) : s[j] # x

\* C1: every returned result has relevance_score >= min_similarity_threshold,
\* and no message whose similarity 1 - distance/2 is below the threshold is
\* in the returned list.
C1_ResultsMeetThreshold ==
    Searched =>
        \A i \in 1..Len(results) :
            /\ results[i].relevance_score >= min_similarity_threshold
            /\ 10 - dist[results[i].message_id] >= min_similarity_threshold

\* a search that returned something and left out a neighbour below the threshold
C1_Witness ==
    /\ Searched
    /\ Len(results) >= 1
    /\ \E j \in 1..Len(raw) : 10 - raw[j].distance < min_similarity_threshold

\* C2: the documents handed to the index hold each message id of the input
\* exactly once, in the order of the first occurrences; an empty input gives no
\* documents; the entries the index call adds are these deduplicated documents.
C2_DocumentsDeduplicated ==
    Searched =>
        /\ IsDupFree(documents)
        /\ IdsOf(documents) = IdsOf(messages)
        /\ \A i, j \in 1..Len(documents) :
              i < j => FirstIndex(messages, documents[i]) < FirstIndex(messages, documents[j])
        /\ (messages = <<>> => documents = <<>>)
        /\ Len(collection) >= Len(documents)
        /\ SubSeq(collection, Len(collection) - Len(documents) + 1, Len(collection))
              = documents

\* an input in which an id comes back after another id
C2_Witness ==
    /\ Searched
    /\ Len(messages) = 3
    /\ messages[1] = messages[3]
    /\ messages[1] # messages[2]
    /\ Len(documents) = 2


\* what the call would return if it were the only call ever made: the search
\* over an index that holds its own deduplicated documents and nothing else
SoleCallResults ==
    FormattedResults(SimilaritySearchWithScore(documents, FetchCount(max_results)),
                     min_similarity_threshold, max_results)

\* C3: no state across requests: the index a call queries holds exactly that
\* call's deduplicated documents, every returned id is the id of one of the
\* call's own messages, and the result is that of the only call ever made.
C3_NoStateAcrossRequests ==
    Searched =>
        /\ collection = documents
        /\ ResultIds(results) \subseteq IdsOf(messages)
        /\ results = SoleCallResults

\* C4: the returned list is sorted by relevance_score, highest first, and
\* results of equal score are in the order of their messages in the input.
C4_SortedAndStable ==
    Searched =>
        \A i, j \in 1..Len(results) :
            i < j =>
                /\ results[i].relevance_score >= results[j].relevance_score
                /\ ( /\ results[i].relevance_score = results[j].relevance_score
                      /\ results[i].message_id \in IdsOf(messages)
                      /\ results[j].message_id \in IdsOf(messages) )
                   => FirstIndex(messages, results[i].message_id)
                        < FirstIndex(messages, results[j].message_id)

\* P: the number of distinct candidates of the call at or above the threshold
PassingCandidates ==
    Cardinality({m \in IdsOf(messages) : 10 - dist[m] >= min_similarity_threshold})

\* C5: the search returns exactly min(max_results, P) results; with P = 0 it
\* returns the empty list.
C5_ExactCount ==
    Searched => Len(results) = Min(max_results, PassingCandidates)

\* C6: every returned relevance_score lies in [0, 1] (0..10 in tenths) and is
\* 1 - distance/2 clamped to that range.
C6_ScoreInUnitRange ==
    Searched =>
        \A i \in 1..Len(results) :
            LET unclamped == 10 - dist[results[i].message_id]
            IN  /\ results[i].relevance_score >= 0
                /\ results[i].relevance_score <= 10
                /\ results[i].relevance_score =
                     (IF unclamped < 0 THEN 0 ELSE IF unclamped > 10 THEN 10 ELSE unclamped)

\* C7 as stated: a search without an explicit minimum similarity runs with
\* min_similarity = 0.0, so the threshold excludes no candidate.
C7_DefaultIsZero ==
    (Searched /\ ~thresholdGiven) => min_similarity_threshold = 0

\* C7 as amended: a search without an explicit minimum similarity runs with
\* min_similarity_threshold = 0.7 and returns no result below 0.7; the /search
\* route and hybrid_search never pass a threshold.
C7_DefaultIsSevenTenths ==
    /\ (Searched /\ ~thresholdGiven) =>
          /\ min_similarity_threshold = 7
          /\ \A i \in 1..Len(results) : results[i].relevance_score >= 7
    /\ (Searched /\ op \in {"route", "hybrid"}) => ~thresholdGiven

\* the route left out a message of similarity 0.6 and returned another
C7_Witness ==
    /\ op = "route"
    /\ status = 200
    /\ ~thresholdGiven
    /\ Len(reply) >= 1
    /\ \E j \in 1..Len(raw) : raw[j].distance = 4

\* C8: a search with zero candidates returns the empty list and is no error:
\* semantic_search_with_rag returns [] for an empty message list, and the
\* /search route answers without an error status.
C8_EmptyIsNoError ==
    /\ (op = "search" /\ messages = <<>>) => results = <<>>
    /\ (op = "route" /\ messages = <<>>) => (status < 400 /\ reply = <<>>)

IsPrefix(s, t) == Len(s) <= Len(t) /\ SubSeq(t, 1, Len(s)) = s

\* C9: for the same query, messages and max_results, the list returned with
\* the higher threshold is a prefix of (so no longer than) the list returned
\* with the lower one.
C9_ThresholdMonotone ==
    ( /\ op = "search"
      /\ memo # <<>>
      /\ memo[1].messages = messages
      /\ memo[1].max_results = max_results )
    => /\ memo[1].threshold <= min_similarity_threshold
            => IsPrefix(results, memo[1].results)
       /\ min_similarity_threshold <= memo[1].threshold
            => IsPrefix(memo[1].results, results)

\* C10: the ids hybrid_search returns are exactly the ids of the semantic
\* results handed to the reranker: none invented, none dropped.
C10_RerankPreservesIds ==
    op = "hybrid" => IdsOf(reply) = ResultIds(results)

\* the operation ended because the embedding of the documents raised
IndexBuildFailed == op # "none" /\ raised = "EmbeddingError"

\* C11: index construction in a search is all-or-nothing.  When the embedding
\* call fails while the index is built, semantic_search_with_rag returns no
\* result list (nothing was queried, nothing formatted), the error reaches the
\* caller (the exception for a direct call and for hybrid_search, HTTP 500 for
\* the route) after a single call of the provider, and the step that fails
\* adds no entry to the collection, so neither that call nor a later search
\* sees a partly built index.
C11_IndexAllOrNothing ==
    [][ IndexBuildFailed' =>
          /\ results' = <<>>
          /\ raw' = <<>>
          /\ reply' = <<>>
          /\ embed_calls' = 1
          /\ (op' = "route" => status' = 500)
          /\ IsPrefix(collection', collection) ]_vars

C11_Witness ==
    /\ op = "search"
    /\ raised = "EmbeddingError"
    /\ Len(documents) >= 2
    /\ sharedClient
    /\ Len(collection) >= 1

\* filter_redundant_messages returned a list
Filtered == op = "filter" /\ raised = "none"

\* the call went through embedding and clustering
Clustered == Filtered /\ n_clusters > 0

\* C12: for every input to filter_redundant_messages, whatever its length
\* relative to target_count, no returned message is trivial.
C12_NoTrivialReturned ==
    Filtered => \A i \in 1..Len(reply) : ~trivial[reply[i]]

\* round(x / 2) as Python rounds: halves go to the even neighbour
RoundHalf(x) ==
    IF x % 2 = 0 THEN x \div 2
    ELSE IF ((x - 1) \div 2) % 2 = 0 THEN (x - 1) \div 2 ELSE (x + 1) \div 2

\* C13: when clustering runs (R non-trivial messages, R > target_count), the
\* number of clusters requested is max(target_count, round(0.5 * R)) and the
\* number of representatives returned is never below 50% of R.
C13_AtLeastHalfKept ==
    Clustered =>
        /\ n_clusters = Max(target_count, RoundHalf(Len(non_trivial)))
        /\ 2 * Len(reply) >= Len(non_trivial)

\* the clusters that have a member
NonEmptyClusters == {cluster_labels[i] : i \in DOMAIN cluster_labels}

\* C14: when clustering runs, every non-trivial item has exactly one label
\* among the n_clusters clusters (the clusters are disjoint and cover the
\* items), exactly one representative, a member of the cluster, is returned
\* for each non-empty cluster, and never more than n_clusters messages.
C14_OneRepresentativePerCluster ==
    Clustered =>
        /\ DOMAIN cluster_labels = 1..Len(non_trivial)
        /\ NonEmptyClusters \subseteq 0..(n_clusters - 1)
        /\ Len(representatives) = Cardinality(NonEmptyClusters)
        /\ \A c \in 1..Len(representatives) :
              cluster_labels[representatives[c]] = c - 1
        /\ Len(reply) = Len(representatives)
        /\ IdsOf(reply) = {non_trivial[representatives[c]] : c \in 1..Len(representatives)}
        /\ Len(reply) <= n_clusters

C14_Witness ==
    /\ Clustered
    /\ Len(non_trivial) = 3
    /\ n_clusters = 2
    /\ cluster_labels[1] = cluster_labels[3]
    /\ cluster_labels[1] # cluster_labels[2]
    /\ representatives[cluster_labels[1] + 1] = 1
    /\ non_trivial[3] \notin IdsOf(reply)

\* C15: on every return path of filter_redundant_messages the returned
\* messages are in non-decreasing created_at order, and every returned message
\* is one of the input messages.
C15_ChronologicalSubset ==
    Filtered =>
        /\ \A i, j \in 1..Len(reply) :
              i < j => created_at[reply[i]] <= created_at[reply[j]]
        /\ IdsOf(reply) \subseteq IdsOf(messages)

\* the embedding call was made and no clustering followed it
EmbeddingFailed == op = "filter" /\ embed_calls = 1 /\ n_clusters = 0

\* C16: if the embedding call fails inside filter_redundant_messages, the
\* whole call fails with an error: no list is returned, neither the messages
\* left by the trivial filter nor representatives of some clusters.
C16_FailureReturnsNothing ==
    EmbeddingFailed =>
        /\ raised = "EmbeddingError"
        /\ reply = <<>>
        /\ representatives = <<>>

C16_Witness ==
    /\ EmbeddingFailed
    /\ raised = "EmbeddingError"
    /\ Len(non_trivial) = 3
    /\ target_count = 2

\* the candidates whose text is the query's: a deterministic provider gives
\* them the query's vector, at cosine distance 0
ExactMatches == {m \in IdsOf(messages) : dist[m] = 0}

\* C17: round trip.  If the query text equals the text of a candidate and the
\* embedding provider is deterministic (no candidate is then nearer than
\* distance 0), the search returns a non-empty list whose first result is that
\* candidate, or a candidate with the same text, with relevance_score 1.0, for
\* every threshold in [0, 1] and every max_results >= 1.
C17_RoundTrip ==
    ( /\ Searched
      /\ ExactMatches # {}
      /\ \A m \in IdsOf(messages) : dist[m] >= 0
      /\ min_similarity_threshold \in 0..10 )
    => /\ results # <<>>
       /\ results[1].message_id \in ExactMatches
       /\ results[1].relevance_score = 10

\* C18: when the proactive workflow decides to act (should_act true with a
\* non-empty suggestion_text), the /proactive route writes a bot-authored
\* message (senderId synapse-bot-system) with that text into the conversation,
\* and no other, and answers success=True, should_act=True with the id of that
\* message.
C18_SuggestionWritten ==
    (op = "proactive" /\ result.should_act /\ result.suggestion_text # "")
    => /\ response.success
       /\ response.should_act
       /\ written = <<response.message_id>>
       /\ response.message_id \in 1..Len(conversation)
       /\ conversation[response.message_id].senderId = SynapseBot
       /\ conversation[response.message_id].text = result.suggestion_text

\* the operation was one of the four routes and the store returned no message
NoMessagesFound ==
    /\ op \in {"route", "summarize", "action-items", "priority"}
    /\ messages = <<>>

\* C20: when the message store returns no messages for the conversation, the
\* /search, /summarize, /action-items and /priority routes answer with HTTP
\* status 404 and write no bot message to the conversation.
C20_NoMessagesIs404 ==
    NoMessagesFound => (status = 404 /\ written = <<>>)


\* ---------------------------------------------------------------- C21..C30

\* the reference search: every deduplicated candidate with its similarity
ScoreAll(docs) ==
    [i \in 1..Len(docs) |->
        [message_id |-> docs[i], relevance_score |-> 10 - dist[docs[i]]]]

RECURSIVE InsertByScore(_, _)
InsertByScore(sorted, r) ==
    IF sorted = <<>> THEN <<r>>
    ELSE IF Head(sorted).relevance_score >= r.relevance_score
         THEN <<Head(sorted)>> \o InsertByScore(Tail(sorted), r)
    ELSE <<r>> \o sorted

RECURSIVE SortByScoreFrom(_, _, _)
SortByScoreFrom(s, i, acc) ==
    IF i > Len(s) THEN acc
    ELSE SortByScoreFrom(s, i + 1, InsertByScore(acc, s[i]))

\* keep similarity >= threshold, sort by similarity descending (candidates of
\* equal similarity in their order of insertion), truncate to n
ReferenceResult(docs, threshold, n) ==
    Truncate(SortByScoreFrom(
                 SelectSeq(ScoreAll(docs),
                           LAMBDA r : r.relevance_score >= threshold),
                 1, <<>>), n)

\* C21: when the index holds exactly the deduplicated candidates of the call,
\* the list returned by semantic_search_with_rag, which fetches only the
\* k = 2 * max_results nearest neighbours, equals the reference result of
\* scoring all candidates, filtering by threshold, sorting by similarity
\* descending and truncating to max_results
C21_FetchLosesNothing ==
    (Searched /\ collection = documents)
        => results = ReferenceResult(documents, min_similarity_threshold,
                                     max_results)

\* a call with more candidates than k, one of them below the threshold, that
\* returned max_results results
C21_Witness ==
    /\ Searched
    /\ collection = documents
    /\ Len(documents) > FetchCount(max_results)
    /\ Len(results) = max_results
    /\ \E i \in 1..Len(documents) :
           10 - dist[documents[i]] < min_similarity_threshold


\* how many of the messages have a text that is not trivial
NonTrivialCount(msgs) == Cardinality({i \in 1..Len(msgs) : ~trivial[msgs[i]]})

Members(c) == {i \in 1..Len(cluster_labels) : cluster_labels[i] = c}

\* C23: the representative of each cluster is a member of it whose embedding
\* is nearest to the mean of the members' embeddings, the one at the lowest
\* position of the non-trivial list among those equally near; it is among the
\* messages returned
C23_NearestToCentroid ==
    Clustered =>
        \A c \in 1..Len(representatives) :
            LET best_idx == representatives[c]
            IN  /\ best_idx \in Members(c - 1)
                /\ \A j \in Members(c - 1) :
                       /\ DistanceToCentroid(embeddings_matrix, Members(c - 1), best_idx)
                              <= DistanceToCentroid(embeddings_matrix, Members(c - 1), j)
                       /\ DistanceToCentroid(embeddings_matrix, Members(c - 1), best_idx)
                              = DistanceToCentroid(embeddings_matrix, Members(c - 1), j)
                          => best_idx <= j
                /\ non_trivial[best_idx] \in IdsOf(reply)

\* a cluster of three whose last member alone is nearest to the centroid
C23_Witness ==
    /\ Clustered
    /\ Members(0) = {1, 2, 3}
    /\ representatives[1] = 3
    /\ \A j \in {1, 2} :
           DistanceToCentroid(embeddings_matrix, Members(0), 3)
               < DistanceToCentroid(embeddings_matrix, Members(0), j)


\* get_conversation_messages has returned
MessagesReturned == op = "messages" /\ ~awaiting

SenderOf(i) == conversation[messages[i]].senderId

\* C24: whatever the order in which the lookups complete, every returned
\* message gets the display name of its own sender; one lookup is made per
\* distinct sender id; a lookup that raises or finds no user gives 'Unknown'
\* to that sender's messages only, and the call does not fail
C24_NamesIndependentOfOrder ==
    MessagesReturned =>
        /\ raised = "none"
        /\ DOMAIN sender_name = DOMAIN messages
        /\ \A i \in DOMAIN messages :
               sender_name[i] =
                   IF SenderOf(i) \in users /\ SenderOf(i) \notin lookup_errors
                   THEN DisplayName(SenderOf(i))
                   ELSE Unknown
        /\ IsDupFree(unique_sender_ids)
        /\ IdsOf(unique_sender_ids) = SenderIds(conversation, messages)
        /\ IsDupFree(completed)
        /\ IdsOf(completed) = DOMAIN unique_sender_ids

\* the second lookup completed first, one lookup raised, and the messages of
\* the other sender carry that sender's name
C24_Witness ==
    /\ MessagesReturned
    /\ completed = <<2, 1>>
    /\ Cardinality(lookup_errors) = 1
    /\ \E i, j \in DOMAIN messages :
           /\ sender_name[i] = Unknown
           /\ sender_name[j] = DisplayName(SenderOf(j))

\* the documents of type 'text' that are not deleted, oldest first
TextMessages(conv) ==
    SelectSeq(Positions(conv), LAMBDA i : conv[i].type = "text" /\ ~conv[i].isDeleted)

\* C25: get_conversation_messages returns the max_messages most recent
\* messages that are not deleted and have type 'text', fewer only if the
\* conversation has fewer, oldest first, and never a deleted or non-text
\* message nor more than max_messages
C25_MostRecentText ==
    op = "messages" =>
        /\ messages = LastN(TextMessages(conversation), max_messages)
        /\ Len(messages) <= max_messages
        /\ \A i \in DOMAIN messages :
               /\ conversation[messages[i]].type = "text"
               /\ ~conversation[messages[i]].isDeleted


\* the specialist agents
Agents == {"cinema_agent", "restaurant_agent", "generic_agent"}

\* the nodes of the workflow that ran and are specialists
AgentsRun == SelectSeq(final_state.nodes, LAMBDA node : node \in Agents)

\* POST /proactive ran the workflow to its end
WorkflowEnded == op = "proactive" /\ final_state.nodes # <<>> /\ result # NoResult

\* C26: when the last message is more than five minutes old, context
\* detection ends with should_act false, context_type "none", confidence 0.0
\* and reason "stale_conversation"; the LLM is not called, no specialist
\* runs, suggestion_text stays empty and the route writes no message
C26_StaleGate ==
    (op = "proactive" /\ final_state.stale)
        => /\ result = [should_act |-> FALSE, context_type |-> "none",
                        confidence |-> 0, reason |-> "stale_conversation",
                        suggestion_text |-> ""]
           /\ final_state.llm_calls = 0
           /\ final_state.nodes = <<"context_detector">>
           /\ written = <<>>
           /\ response = ProactiveReply(TRUE, FALSE, "stale_conversation", NoSuchId)

\* a request for a conversation with messages, the last of them stale
C26_Witness ==
    /\ op = "proactive"
    /\ Len(messages) = 2
    /\ final_state.stale
    /\ response.reason = "stale_conversation"

\* C27: in every run of the workflow the context detector runs first and
\* once; then one specialist runs if should_act is true and none if it is
\* false: the cinema agent for "cinema", the restaurant agent for
\* "restaurant", the generic agent for every other context_type; then the
\* workflow ends, and suggestion_text is non-empty exactly if a specialist ran
C27_WorkflowOrder ==
    WorkflowEnded =>
        /\ Head(final_state.nodes) = "context_detector"
        /\ Len(final_state.nodes) = 1 + Len(AgentsRun)
        /\ Len(AgentsRun) = IF final_state.should_act THEN 1 ELSE 0
        /\ AgentsRun # <<>> =>
               AgentsRun[1] =
                   CASE final_state.context_type = "cinema" -> "cinema_agent"
                     [] final_state.context_type = "restaurant" -> "restaurant_agent"
                     [] OTHER -> "generic_agent"
        /\ (final_state.suggestion_text # "") <=> (AgentsRun # <<>>)
        /\ result = Returned(final_state)

\* the LLM answered should_act with context_type "restaurant"
C27_Witness ==
    /\ WorkflowEnded
    /\ final_state.nodes = <<"context_detector", "restaurant_agent">>
    /\ result.suggestion_text = "Restaurant Suggestions"


\* the documents of the conversation that the bot wrote
IsBotDoc(i) == conversation[i].senderId = SynapseBot

\* C28: a bot message written with sendNotification false causes no push
\* notification: the on-create trigger sends none for it
C28_NoPushUnlessAsked ==
    \A i \in notifications : IsBotDoc(i) => conversation[i].sendNotification

\* the types of the documents the request wrote
WrittenTypes == [k \in DOMAIN written |-> conversation[written[k]].type]

\* C29: a /summarize request writes at most one bot message: an ai_summary
\* message when it succeeds, an ai_error message or none when it fails with
\* HTTP 500, and never a result message and an error message together
C29_AtMostOneBotMessage ==
    op = "summarize" =>
        /\ Len(written) <= 1
        /\ status \in {200, 500}
        /\ status = 200 => WrittenTypes = <<"ai_summary">>
        /\ status = 500 => WrittenTypes \in {<<>>, <<"ai_error">>}


\* C30: no message_id occurs twice in the list semantic_search_with_rag
\* returns, even if the index returns an id in several entries; every result
\* of the /search response has the id of a message fetched for the
\* conversation, and total_found is the number of results in the response
C30_UniqueAndFetched ==
    /\ Searched => \A i, j \in 1..Len(results) :
                       i # j => results[i].message_id # results[j].message_id
    /\ (op = "route" /\ status = 200)
           => /\ ResultIds(reply) \subseteq IdsOf(messages)
              /\ total_found = Len(reply)

\* the index answered with an id in two entries and with an id that was not
\* fetched for this request
C30_Witness ==
    /\ op = "route"
    /\ status = 200
    /\ \E i, j \in 1..Len(raw) : i # j /\ raw[i].message_id = raw[j].message_id
    /\ \E i \in 1..Len(results) : results[i].message_id \notin IdsOf(messages)
    /\ total_found = 1

====
